---- MODULE Spec2Model ----
(***************************************************************************)
(* Model of the test-project crate: the math module (src/lib.rs), the      *)
(* minimal positional binary (src/bin/calculator.rs) and the subcommand    *)
(* CLI (src/main.rs).  One behaviour of the model is one process run (or   *)
(* one direct call of a math function by a library caller such as the      *)
(* unit tests and benches).                                                *)
(***************************************************************************)
EXTENDS Integers, Sequences, FiniteSets, TLC

(***************************************************************************)
(* f64.  A value is a sign-magnitude record: NaN, a signed infinity, or a  *)
(* signed rational n/d in lowest terms (so +0 and -0 are distinct values). *)
(* On the sampled operands (small integers and 2.5) every result of one    *)
(* operation is a rational whose denominator has only the prime factors 2  *)
(* and 5; for those the shortest round-trip decimal Rust prints is the     *)
(* exact decimal expansion, which Display below produces.                  *)
(***************************************************************************)
RECURSIVE GCD(_, _)
GCD(m, n) == IF n = 0 THEN m ELSE GCD(n, m % n)

NaN == [k |-> "nan", s |-> 1, n |-> 0, d |-> 1]
Inf(s) == [k |-> "inf", s |-> s, n |-> 0, d |-> 1]
Fin(s, n, d) == LET g == GCD(n, d) IN [k |-> "fin", s |-> s, n |-> n \div g, d |-> d \div g]
Undef == [k |-> "undef", s |-> 1, n |-> 0, d |-> 1]

IsNaN(x) == x.k = "nan"
IsInf(x) == x.k = "inf"
IsZero(x) == x.k = "fin" /\ x.n = 0
FNeg(x) == IF IsNaN(x) THEN x ELSE [x EXCEPT !.s = 0 - x.s]

\* `==` on f64: NaN equals nothing, +0 equals -0.
FEq(x, y) == /\ ~IsNaN(x)
             /\ ~IsNaN(y)
             /\ ((IsZero(x) /\ IsZero(y)) \/ x = y)

\* `+` on f64 (round to nearest): inf + -inf is NaN; an exact zero sum is +0
\* unless both addends are -0.
FAdd(x, y) ==
    IF IsNaN(x) \/ IsNaN(y) THEN NaN
    ELSE IF IsInf(x) /\ IsInf(y) THEN (IF x.s = y.s THEN x ELSE NaN)
    ELSE IF IsInf(x) THEN x
    ELSE IF IsInf(y) THEN y
    ELSE LET num == x.s * x.n * y.d + y.s * y.n * x.d
             den == x.d * y.d
         IN IF num = 0 THEN Fin(IF x.s = -1 /\ y.s = -1 THEN -1 ELSE 1, 0, 1)
            ELSE IF num < 0 THEN Fin(-1, 0 - num, den)
            ELSE Fin(1, num, den)

\* `-` on f64: x - y is x + (-y), signs of zero included.
FSub(x, y) == FAdd(x, FNeg(y))

\* `*` on f64: inf * 0 is NaN; the sign is the product of the signs.
FMul(x, y) ==
    IF IsNaN(x) \/ IsNaN(y) THEN NaN
    ELSE IF (IsInf(x) /\ IsZero(y)) \/ (IsZero(x) /\ IsInf(y)) THEN NaN
    ELSE IF IsInf(x) \/ IsInf(y) THEN Inf(x.s * y.s)
    ELSE Fin(x.s * y.s, x.n * y.n, x.d * y.d)

\* `/` on f64: inf/inf and 0/0 are NaN, x/0 is a signed infinity, x/inf a
\* signed zero.
FDiv(x, y) ==
    IF IsNaN(x) \/ IsNaN(y) THEN NaN
    ELSE IF (IsInf(x) /\ IsInf(y)) \/ (IsZero(x) /\ IsZero(y)) THEN NaN
    ELSE IF IsInf(x) \/ IsZero(y) THEN Inf(x.s * y.s)
    ELSE IF IsInf(y) THEN Fin(x.s * y.s, 0, 1)
    ELSE Fin(x.s * y.s, x.n * y.d, x.d * y.n)

\* usize as f64 (exact for the modelled widths).
FromInt(i) == Fin(1, i, 1)

RECURSIVE FracDigits(_, _)
FracDigits(r, d) ==
    IF r = 0 THEN ""
    ELSE ToString((r * 10) \div d) \o FracDigits((r * 10) % d, d)

\* `{}` of an f64: "NaN", "inf", "-inf", and for a finite value the decimal
\* with no trailing ".0" ("15", "-0", "2.5").
Display(x) ==
    IF IsNaN(x) THEN "NaN"
    ELSE (IF x.s = -1 THEN "-" ELSE "") \o
         (IF IsInf(x) THEN "inf"
          ELSE ToString(x.n \div x.d) \o
               (IF x.n % x.d = 0 THEN "" ELSE "." \o FracDigits(x.n % x.d, x.d)))

\* `{:?}` of an f64: as Display, but an integral value keeps ".0".
DebugF64(x) ==
    IF x.k = "fin" /\ x.n % x.d = 0 THEN Display(x) \o ".0" ELSE Display(x)

\* str::parse::<f64> on the sampled literals: several literals denote the
\* same value, everything else is an error.
F64Literals ==
    [s \in {"10", "10.0", "2.5", "0", "-0", "NaN"} |->
        CASE s = "10" -> Fin(1, 10, 1)
          [] s = "10.0" -> Fin(1, 10, 1)
          [] s = "2.5" -> Fin(1, 5, 2)
          [] s = "0" -> Fin(1, 0, 1)
          [] s = "-0" -> Fin(-1, 0, 1)
          [] s = "NaN" -> NaN]

ParseF64(s) ==
    IF s \in DOMAIN F64Literals THEN [ok |-> TRUE, value |-> F64Literals[s]]
    ELSE [ok |-> FALSE, value |-> Undef]

(***************************************************************************)
(* src/lib.rs: mod math                                                    *)
(***************************************************************************)
add(a, b) == FAdd(a, b)

subtract(a, b) == FSub(a, b)

multiply(a, b) == FMul(a, b)

\* Mutant: no zero check.
divide_unchecked(a, b) == [panicked |-> FALSE, value |-> FDiv(a, b)]

\* divide panics when b == 0.0 and otherwise returns a / b.
divide(a, b) ==
    IF FEq(b, Fin(1, 0, 1)) THEN [panicked |-> TRUE, value |-> Undef]
    ELSE [panicked |-> FALSE, value |-> FDiv(a, b)]

(***************************************************************************)
(* Bounds and widths.  TLC's integers are 32-bit, so the two widths the    *)
(* generate subcommand depends on are modelled at a reduced width that     *)
(* keeps their order: the id field (u32) has IdBits bits, the item count   *)
(* (usize) has WordBits bits, and IdBits < WordBits - 1 as 32 < 63.        *)
(***************************************************************************)
MaxPositional == 4
IdBits == 3
WordBits == 11
U8Max == 255
SizeOfTestData == 40
NoExit == -1
PanicStatus == 101

IdMod == 2 ^ IdBits
UsizeMax == 2 ^ WordBits - 1
IsizeMax == 2 ^ (WordBits - 1) - 1

VARIABLES
    prog,        \* which program runs: "calculator", "cli", or "lib" (a direct caller of math)
    argv,        \* calculator: the OS argument vector, program name first
    cli,         \* subcommand CLI: the Cli value Cli::parse() returned
    jsonOutput,  \* subcommand CLI: built with feature "json-output"
    call,        \* lib: the math function called and its operands
    pc,          \* position in the running program
    stdout,      \* lines written to standard output
    stderr,      \* lines written to the error stream
    exitStatus,  \* process exit status, NoExit while running
    args,        \* calculator: Vec<String> args
    num1, num2,  \* calculator: parsed operands
    operator,    \* calculator: &args[2]
    result,      \* calculator / Math arm: let result
    i,           \* loop variable of the greet loop and of the item print loop
    data,        \* Generate arm: Vec<TestData>
    ret,         \* lib: the value the called function returned
    divideCalls  \* every call of math::divide made so far, as <<a, b>>

vars == <<prog, argv, cli, jsonOutput, call, pc, stdout, stderr, exitStatus,
          args, num1, num2, operator, result, i, data, ret, divideCalls>>

\* An argument that is not valid Unicode (the byte 0xFF on Unix).
InvalidUnicode == "<0xFF>"
IsUnicode(s) == s # InvalidUnicode

ArgTokens == (DOMAIN F64Literals \ {"10.0"}) \cup {"abc", "+", "-", "*", "/", "%", InvalidUnicode}
\* Tokens of the argument lists that are too long (only their number and
\* their being Unicode matter to the program).
LongListTokens == {"10", "+", InvalidUnicode}
ProgramName == "calculator"

RECURSIVE SeqsOfLen(_, _)
SeqsOfLen(S, n) ==
    IF n = 0 THEN {<<>>}
    ELSE {Append(q, t) : q \in SeqsOfLen(S, n - 1), t \in S}

\* The operating system passes the program name and then the positional
\* arguments: every list of up to three tokens, one list with the literal
\* "10.0", and longer lists of up to MaxPositional tokens.
Argvs ==
    {<<ProgramName>> \o q :
        q \in UNION {SeqsOfLen(ArgTokens, n) : n \in 0..3}
              \cup {<<"10.0", "+", "2.5">>}
              \cup UNION {SeqsOfLen(LongListTokens, n) : n \in 4..MaxPositional}}

F64Samples == {Fin(1, 10, 1), Fin(1, 5, 2), Fin(1, 0, 1), Fin(-1, 0, 1),
               Fin(-1, 2, 1), NaN, Inf(1), Inf(-1)}
MathOpNames == {"Add", "Subtract", "Multiply", "Divide"}
Names == {"Alice"}

\* enum Commands (and the None of Option<Commands>), flattened to one record.
Command(cmd, name, count, op, a, b) ==
    [cmd |-> cmd, name |-> name, count |-> count, operation |-> [op |-> op, a |-> a, b |-> b]]
NoOperation == [op |-> "", a |-> Undef, b |-> Undef]
Commands ==
    {Command("None", "", 0, "", Undef, Undef)}
    \cup {Command("Greet", n, c, "", Undef, Undef) : n \in Names, c \in 0..U8Max}
    \cup {Command("Math", "", 0, o, a, b) : o \in MathOpNames, a \in F64Samples, b \in F64Samples}
    \cup {Command("Generate", "", c, "", Undef, Undef) : c \in 0..UsizeMax}

\* struct Cli after a successful Cli::parse().
Clis == {[verbose |-> v, command |-> c] : v \in BOOLEAN, c \in Commands}
NoCli == [verbose |-> FALSE, command |-> Command("None", "", 0, "", Undef, Undef)]

Calls == {[op |-> o, a |-> a, b |-> b] : o \in MathOpNames, a \in F64Samples, b \in F64Samples}

Locals ==
    /\ stdout = <<>>
    /\ stderr = <<>>
    /\ exitStatus = NoExit
    /\ args = <<>>
    /\ num1 = Undef
    /\ num2 = Undef
    /\ operator = ""
    /\ result = Undef
    /\ i = 0
    /\ data = <<>>
    /\ ret = Undef
    /\ divideCalls = <<>>

Init ==
    /\ \/ /\ prog = "calculator"
          /\ argv \in Argvs
          /\ cli = NoCli /\ jsonOutput = FALSE /\ call = NoOperation
          /\ pc = "args"
       \/ /\ prog = "cli"
          /\ cli \in Clis
          /\ jsonOutput \in BOOLEAN
          /\ argv = <<>> /\ call = NoOperation
          /\ pc = "verbose"
       \/ /\ prog = "lib"
          /\ call \in Calls
          /\ argv = <<>> /\ cli = NoCli /\ jsonOutput = FALSE
          /\ pc = "call"
    /\ Locals

\* The panic handler's report on the error stream.
PanicLine(msg) == "thread 'main' panicked: " \o msg

\* A panic in main: the report goes to the error stream and the process
\* exits with the panic status.
Panic(msg) ==
    /\ stderr' = Append(stderr, PanicLine(msg))
    /\ exitStatus' = PanicStatus
    /\ pc' = "done"

\* process::exit(code)
Exit(code) ==
    /\ exitStatus' = code
    /\ pc' = "done"

(***************************************************************************)
(* src/bin/calculator.rs                                                   *)
(***************************************************************************)
\* env::args().collect(): the iterator panics on an argument that is not
\* valid Unicode.
CalcCollectArgs ==
    /\ prog = "calculator" /\ pc = "args"
    /\ IF \E k \in 1..Len(argv) : ~IsUnicode(argv[k])
       THEN /\ Panic("called Result::unwrap() on an Err value: " \o InvalidUnicode)
            /\ UNCHANGED args
       ELSE /\ args' = argv
            /\ pc' = "argc"
            /\ UNCHANGED <<stderr, exitStatus>>
    /\ UNCHANGED <<prog, argv, cli, jsonOutput, call, stdout, num1, num2,
                   operator, result, i, data, ret, divideCalls>>

\* The three eprintln! lines of the usage message.
Usage(p) ==
    << "Usage: " \o p \o " <number1> <operator> <number2>",
       "Operators: +, -, *, /",
       "Example: " \o p \o " 5 + 3" >>

\* if args.len() != 4 { usage; exit(1) }
CalcCheckArgc ==
    /\ prog = "calculator" /\ pc = "argc"
    /\ IF Len(args) # 4
       THEN /\ stderr' = stderr \o Usage(args[1])
            /\ Exit(1)
       ELSE /\ pc' = "num1"
            /\ UNCHANGED <<stderr, exitStatus>>
    /\ UNCHANGED <<prog, argv, cli, jsonOutput, call, stdout, args, num1, num2,
                   operator, result, i, data, ret, divideCalls>>

NotANumber(s) == "Error: '" \o s \o "' is not a valid number"

\* Mutant: a parse failure of the first number is reported but the run goes on.
CalcParseNum1_continue ==
    /\ prog = "calculator" /\ pc = "num1"
    /\ LET p == ParseF64(args[2])
       IN /\ num1' = IF p.ok THEN p.value ELSE NaN
          /\ operator' = args[3]
          /\ pc' = "num2"
          /\ stderr' = IF p.ok THEN stderr ELSE Append(stderr, NotANumber(args[2]))
          /\ UNCHANGED exitStatus
    /\ UNCHANGED <<prog, argv, cli, jsonOutput, call, stdout, args, num2,
                   result, i, data, ret, divideCalls>>

\* let num1 = match args[1].parse() { .. }; let operator = &args[2];
CalcParseNum1 ==
    /\ prog = "calculator" /\ pc = "num1"
    /\ LET p == ParseF64(args[2])
       IN IF p.ok
          THEN /\ num1' = p.value
               /\ operator' = args[3]
               /\ pc' = "num2"
               /\ UNCHANGED <<stderr, exitStatus>>
          ELSE /\ stderr' = Append(stderr, NotANumber(args[2]))
               /\ Exit(1)
               /\ UNCHANGED <<num1, operator>>
    /\ UNCHANGED <<prog, argv, cli, jsonOutput, call, stdout, args, num2,
                   result, i, data, ret, divideCalls>>

\* let num2 = match args[3].parse() { .. };
CalcParseNum2 ==
    /\ prog = "calculator" /\ pc = "num2"
    /\ LET p == ParseF64(args[4])
       IN IF p.ok
          THEN /\ num2' = p.value
               /\ pc' = "match"
               /\ UNCHANGED <<stderr, exitStatus>>
          ELSE /\ stderr' = Append(stderr, NotANumber(args[4]))
               /\ Exit(1)
               /\ UNCHANGED num2
    /\ UNCHANGED <<prog, argv, cli, jsonOutput, call, stdout, args, num1,
                   operator, result, i, data, ret, divideCalls>>

DivisionByZero == "Error: Division by zero!"

\* The zero check of the "/" arm.
CalcIsZero(n2) == FEq(n2, Fin(1, 0, 1))

\* Mutant: the "-" arm adds.
CalcMatch_minusAdds(oper, n1, n2) ==
    CASE oper = "+" -> [kind |-> "ok", value |-> FAdd(n1, n2)]
      [] oper = "-" -> [kind |-> "ok", value |-> FAdd(n1, n2)]
      [] oper = "*" -> [kind |-> "ok", value |-> FMul(n1, n2)]
      [] oper = "/" -> IF CalcIsZero(n2) THEN [kind |-> "divzero", value |-> Undef]
                       ELSE [kind |-> "ok", value |-> FDiv(n1, n2)]
      [] OTHER -> [kind |-> "unknown", value |-> Undef]

\* match operator.as_str() { "+" => .., "-" => .., "*" => .., "/" => .., _ => .. }
CalcMatch(oper, n1, n2) ==
    CASE oper = "+" -> [kind |-> "ok", value |-> FAdd(n1, n2)]
      [] oper = "-" -> [kind |-> "ok", value |-> FSub(n1, n2)]
      [] oper = "*" -> [kind |-> "ok", value |-> FMul(n1, n2)]
      [] oper = "/" -> IF CalcIsZero(n2) THEN [kind |-> "divzero", value |-> Undef]
                       ELSE [kind |-> "ok", value |-> FDiv(n1, n2)]
      [] OTHER -> [kind |-> "unknown", value |-> Undef]

\* The two eprintln! lines of the `_` arm.
UnknownOperator(oper) ==
    << "Error: Unknown operator '" \o oper \o "'",
       "Supported operators: +, -, *, /" >>

CalcDispatch ==
    /\ prog = "calculator" /\ pc = "match"
    /\ LET m == CalcMatch(operator, num1, num2)
       IN CASE m.kind = "ok" ->
                 /\ result' = m.value
                 /\ pc' = "print"
                 /\ UNCHANGED <<stderr, exitStatus>>
            [] m.kind = "divzero" ->
                 /\ stderr' = Append(stderr, DivisionByZero)
                 /\ Exit(1)
                 /\ UNCHANGED result
            [] OTHER ->
                 /\ stderr' = stderr \o UnknownOperator(operator)
                 /\ Exit(1)
                 /\ UNCHANGED result
    /\ UNCHANGED <<prog, argv, cli, jsonOutput, call, stdout, args, num1, num2,
                   operator, i, data, ret, divideCalls>>

\* "{} {} {} = {}"
CalcLine(n1, oper, n2, res) ==
    Display(n1) \o " " \o oper \o " " \o Display(n2) \o " = " \o Display(res)

\* Mutant: the result line goes to the error stream.
CalcPrintResult_stderr ==
    /\ prog = "calculator" /\ pc = "print"
    /\ stderr' = Append(stderr, CalcLine(num1, operator, num2, result))
    /\ Exit(0)
    /\ UNCHANGED <<prog, argv, cli, jsonOutput, call, stdout, args, num1, num2,
                   operator, result, i, data, ret, divideCalls>>

\* println!(..) and the return from main.
CalcPrintResult ==
    /\ prog = "calculator" /\ pc = "print"
    /\ stdout' = Append(stdout, CalcLine(num1, operator, num2, result))
    /\ Exit(0)
    /\ UNCHANGED <<prog, argv, cli, jsonOutput, call, stderr, args, num1, num2,
                   operator, result, i, data, ret, divideCalls>>

(***************************************************************************)
(* src/main.rs                                                             *)
(***************************************************************************)
\* Mutant: the notice is printed only when a subcommand was given.
MainVerbose_onlyWithSubcommand ==
    /\ prog = "cli" /\ pc = "verbose"
    /\ stdout' = IF cli.verbose /\ cli.command.cmd # "None"
                 THEN Append(stdout, "Running in verbose mode") ELSE stdout
    /\ pc' = "match"
    /\ UNCHANGED <<prog, argv, cli, jsonOutput, call, stderr, exitStatus, args,
                   num1, num2, operator, result, i, data, ret, divideCalls>>

\* if cli.verbose { println!("Running in verbose mode"); }
MainVerbose ==
    /\ prog = "cli" /\ pc = "verbose"
    /\ stdout' = IF cli.verbose THEN Append(stdout, "Running in verbose mode") ELSE stdout
    /\ pc' = "match"
    /\ UNCHANGED <<prog, argv, cli, jsonOutput, call, stderr, exitStatus, args,
                   num1, num2, operator, result, i, data, ret, divideCalls>>

\* Some(Commands::Greet { name, count }) => for i in 1..=*count
MainGreetStart ==
    /\ prog = "cli" /\ pc = "match" /\ cli.command.cmd = "Greet"
    /\ i' = 1
    /\ pc' = "greet"
    /\ UNCHANGED <<prog, argv, cli, jsonOutput, call, stdout, stderr, exitStatus,
                   args, num1, num2, operator, result, data, ret, divideCalls>>

\* Mutant: a single greeting is numbered too.
GreetLine_numberedFromOne(name, count, k) ==
    IF count >= 1 THEN ToString(k) \o ". Hello, " \o name \o "!"
    ELSE "Hello, " \o name \o "!"

\* The line one iteration of the greet loop prints.
GreetLine(name, count, k) ==
    IF count > 1 THEN ToString(k) \o ". Hello, " \o name \o "!"
    ELSE "Hello, " \o name \o "!"

\* One iteration of the loop, or its end once the range 1..=count is used up.
MainGreetIter ==
    /\ prog = "cli" /\ pc = "greet"
    /\ IF i <= cli.command.count
       THEN /\ stdout' = Append(stdout, GreetLine(cli.command.name, cli.command.count, i))
            /\ i' = i + 1
            /\ pc' = "greet"
       ELSE /\ pc' = "return"
            /\ UNCHANGED <<stdout, i>>
    /\ UNCHANGED <<prog, argv, cli, jsonOutput, call, stderr, exitStatus, args,
                   num1, num2, operator, result, data, ret, divideCalls>>

\* Mutant: the check compares with +0.0 bit for bit, so -0.0 passes it.
MainIsZero_positiveOnly(b) == b = Fin(1, 0, 1)

\* The zero check of the MathOps::Divide arm.
MainIsZero(b) == FEq(b, Fin(1, 0, 1))

MathLine(a, sym, b, res) ==
    Display(a) \o sym \o Display(b) \o " = " \o Display(res)

\* let result = match operation { .. }: what the arm does with its operands.
\* called lists the calls of math::divide the arm makes.
MathArm(o) ==
    CASE o.op = "Add" ->
           [kind |-> "ok", value |-> add(o.a, o.b), called |-> <<>>,
            line |-> MathLine(o.a, " + ", o.b, add(o.a, o.b))]
      [] o.op = "Subtract" ->
           [kind |-> "ok", value |-> subtract(o.a, o.b), called |-> <<>>,
            line |-> MathLine(o.a, " - ", o.b, subtract(o.a, o.b))]
      [] o.op = "Multiply" ->
           [kind |-> "ok", value |-> multiply(o.a, o.b), called |-> <<>>,
            line |-> MathLine(o.a, " * ", o.b, multiply(o.a, o.b))]
      [] o.op = "Divide" ->
           IF MainIsZero(o.b)
           THEN [kind |-> "divzero", value |-> Undef, called |-> <<>>, line |-> ""]
           ELSE LET r == divide(o.a, o.b)
                IN IF r.panicked
                   THEN [kind |-> "panic", value |-> Undef, called |-> << <<o.a, o.b>> >>,
                         line |-> ""]
                   ELSE [kind |-> "ok", value |-> r.value, called |-> << <<o.a, o.b>> >>,
                         line |-> MathLine(o.a, " / ", o.b, r.value)]

\* Some(Commands::Math { operation }) => ..
MainMath ==
    /\ prog = "cli" /\ pc = "match" /\ cli.command.cmd = "Math"
    /\ LET m == MathArm(cli.command.operation)
       IN /\ divideCalls' = divideCalls \o m.called
          /\ CASE m.kind = "ok" ->
                    /\ stdout' = Append(stdout, m.line)
                    /\ result' = m.value
                    /\ pc' = IF jsonOutput THEN "math_json" ELSE "return"
                    /\ UNCHANGED <<stderr, exitStatus>>
               [] m.kind = "divzero" ->
                    /\ stderr' = Append(stderr, DivisionByZero)
                    /\ Exit(1)
                    /\ UNCHANGED <<stdout, result>>
               [] OTHER ->
                    /\ Panic("Division by zero")
                    /\ UNCHANGED <<stdout, result>>
    /\ UNCHANGED <<prog, argv, cli, jsonOutput, call, args, num1, num2, operator,
                   i, data, ret>>

\* serde_json's rendering of an f64: a number, or null when not finite.
JsonF64(x) == IF x.k = "fin" THEN DebugF64(x) ELSE "null"

\* format!("{:?}", operation)
DebugMathOps(o) ==
    o.op \o " { a: " \o DebugF64(o.a) \o ", b: " \o DebugF64(o.b) \o " }"

\* #[cfg(feature = "json-output")] println!("JSON: {}", json_result)
MainMathJson ==
    /\ prog = "cli" /\ pc = "math_json"
    /\ stdout' = Append(stdout,
          "JSON: {\"operation\":\"" \o DebugMathOps(cli.command.operation)
          \o "\",\"result\":" \o JsonF64(result) \o "}")
    /\ pc' = "return"
    /\ UNCHANGED <<prog, argv, cli, jsonOutput, call, stderr, exitStatus, args,
                   num1, num2, operator, result, i, data, ret, divideCalls>>

\* i as u32: the low IdBits bits of i.
AsU32(k) == k % IdMod

\* The closure of the map: TestData { id: i as u32, name: format!("Item {}", i),
\* value: (i as f64) * 1.5 }
TestData(k) ==
    [id |-> AsU32(k), name |-> "Item " \o ToString(k), value |-> FMul(FromInt(k), Fin(1, 3, 2))]

\* Vec::with_capacity panics ("capacity overflow") when the buffer would be
\* larger than isize::MAX bytes; collect() of the exact-size range asks for
\* count elements at once.  The allocator is taken to succeed otherwise.
CapacityOverflow(count) == count * SizeOfTestData > IsizeMax

\* let data: Vec<TestData> = (1..=*count).map(..).collect();
MainGenerateCollect ==
    /\ prog = "cli" /\ pc = "match" /\ cli.command.cmd = "Generate"
    /\ IF CapacityOverflow(cli.command.count)
       THEN /\ Panic("capacity overflow")
            /\ UNCHANGED data
       ELSE /\ data' = [k \in 1..cli.command.count |-> TestData(k)]
            /\ pc' = "gen_header"
            /\ UNCHANGED <<stderr, exitStatus>>
    /\ UNCHANGED <<prog, argv, cli, jsonOutput, call, stdout, args, num1, num2,
                   operator, result, i, ret, divideCalls>>

\* println!("Generated {} test items:", data.len());
MainGenerateHeader ==
    /\ prog = "cli" /\ pc = "gen_header"
    /\ stdout' = Append(stdout, "Generated " \o ToString(Len(data)) \o " test items:")
    /\ i' = 1
    /\ pc' = "gen_items"
    /\ UNCHANGED <<prog, argv, cli, jsonOutput, call, stderr, exitStatus, args,
                   num1, num2, operator, result, data, ret, divideCalls>>

\* {:?} of a TestData
DebugTestData(t) ==
    "TestData { id: " \o ToString(t.id) \o ", name: \"" \o t.name
    \o "\", value: " \o DebugF64(t.value) \o " }"

\* for item in &data { println!("  {:?}", item); }
MainGenerateItem ==
    /\ prog = "cli" /\ pc = "gen_items"
    /\ IF i <= Len(data)
       THEN /\ stdout' = Append(stdout, "  " \o DebugTestData(data[i]))
            /\ i' = i + 1
            /\ pc' = "gen_items"
       ELSE /\ pc' = IF jsonOutput THEN "gen_json" ELSE "return"
            /\ UNCHANGED <<stdout, i>>
    /\ UNCHANGED <<prog, argv, cli, jsonOutput, call, stderr, exitStatus, args,
                   num1, num2, operator, result, data, ret, divideCalls>>

PrettyTestData(t) ==
    "  {\n    \"id\": " \o ToString(t.id) \o ",\n    \"name\": \"" \o t.name
    \o "\",\n    \"value\": " \o JsonF64(t.value) \o "\n  }"

RECURSIVE PrettyItems(_, _)
PrettyItems(d, k) ==
    IF k > Len(d) THEN ""
    ELSE PrettyTestData(d[k]) \o (IF k < Len(d) THEN ",\n" ELSE "\n") \o PrettyItems(d, k + 1)

\* serde_json::to_string_pretty(&data)
ToStringPretty(d) == IF Len(d) = 0 THEN "[]" ELSE "[\n" \o PrettyItems(d, 1) \o "]"

\* #[cfg(feature = "json-output")] if let Ok(json) = .. { println!("\nJSON output:\n{}", json) }
MainGenerateJson ==
    /\ prog = "cli" /\ pc = "gen_json"
    /\ stdout' = Append(stdout, "\nJSON output:\n" \o ToStringPretty(data))
    /\ pc' = "return"
    /\ UNCHANGED <<prog, argv, cli, jsonOutput, call, stderr, exitStatus, args,
                   num1, num2, operator, result, i, data, ret, divideCalls>>

\* None => two lines
MainNone ==
    /\ prog = "cli" /\ pc = "match" /\ cli.command.cmd = "None"
    /\ stdout' = stdout \o << "Test project is running successfully!",
                              "Use --help for available commands." >>
    /\ pc' = "return"
    /\ UNCHANGED <<prog, argv, cli, jsonOutput, call, stderr, exitStatus, args,
                   num1, num2, operator, result, i, data, ret, divideCalls>>

\* main returns: the process exits with status 0.
MainReturn ==
    /\ prog = "cli" /\ pc = "return"
    /\ Exit(0)
    /\ UNCHANGED <<prog, argv, cli, jsonOutput, call, stdout, stderr, args,
                   num1, num2, operator, result, i, data, ret, divideCalls>>

(***************************************************************************)
(* A direct caller of the math module (the unit and integration tests, the *)
(* benches): one call of one function.                                     *)
(***************************************************************************)
LibCall ==
    /\ prog = "lib" /\ pc = "call"
    /\ CASE call.op = "Add" ->
              /\ ret' = add(call.a, call.b)
              /\ pc' = "returned"
              /\ UNCHANGED <<stderr, divideCalls>>
         [] call.op = "Subtract" ->
              /\ ret' = subtract(call.a, call.b)
              /\ pc' = "returned"
              /\ UNCHANGED <<stderr, divideCalls>>
         [] call.op = "Multiply" ->
              /\ ret' = multiply(call.a, call.b)
              /\ pc' = "returned"
              /\ UNCHANGED <<stderr, divideCalls>>
         [] call.op = "Divide" ->
              LET r == divide(call.a, call.b)
              IN /\ divideCalls' = Append(divideCalls, <<call.a, call.b>>)
                 /\ IF r.panicked
                    THEN /\ stderr' = Append(stderr, PanicLine("Division by zero"))
                         /\ pc' = "panicked"
                         /\ UNCHANGED ret
                    ELSE /\ ret' = r.value
                         /\ pc' = "returned"
                         /\ UNCHANGED stderr
    /\ UNCHANGED <<prog, argv, cli, jsonOutput, call, stdout, exitStatus, args,
                   num1, num2, operator, result, i, data>>

Next ==
    \/ CalcCollectArgs
    \/ CalcCheckArgc
    \/ CalcParseNum1
    \/ CalcParseNum2
    \/ CalcDispatch
    \/ CalcPrintResult
    \/ MainVerbose
    \/ MainGreetStart
    \/ MainGreetIter
    \/ MainMath
    \/ MainMathJson
    \/ MainGenerateCollect
    \/ MainGenerateHeader
    \/ MainGenerateItem
    \/ MainGenerateJson
    \/ MainNone
    \/ MainReturn
    \/ LibCall

Spec == Init /\ [][Next]_vars

(***************************************************************************)
(* Properties                                                              *)
(***************************************************************************)
CalcRun == prog = "calculator"
CliRun == prog = "cli"
LibRun == prog = "lib"
Done == pc = "done"
Zero(v) == v = Fin(1, 0, 1) \/ v = Fin(-1, 0, 1)
Range(q) == {q[k] : k \in 1..Len(q)}
Notice == "Running in verbose mode"

\* C1: math::divide(a, b) panics, returning no value, for every a whenever b
\* is zero, and for every nonzero b returns the quotient a / b without
\* panicking.
C1_DivideContract ==
    (LibRun /\ call.op = "Divide" /\ pc # "call") =>
        IF Zero(call.b)
        THEN pc = "panicked" /\ ret = Undef
        ELSE pc = "returned" /\ ret = FDiv(call.a, call.b) /\ stderr = <<>>

C1_Witness ==
    /\ LibRun /\ call.op = "Divide" /\ pc = "panicked"
    /\ call.b = Fin(-1, 0, 1) /\ call.a = Fin(1, 10, 1)

DivideRequestedByZero ==
    \/ CalcRun /\ pc \in {"print", "done"} /\ operator = "/" /\ Zero(num2)
    \/ CliRun /\ pc \notin {"verbose", "match"}
       /\ cli.command.operation.op = "Divide" /\ Zero(cli.command.operation.b)

\* C2: in every run of either front-end math::divide is only ever called with
\* a nonzero second operand and never panics; a division whose second
\* operand is zero makes no call of divide, reports the division-by-zero
\* error and exits with status 1.
C2_FatalPathNeverReached ==
    (CalcRun \/ CliRun) =>
        /\ \A k \in 1..Len(divideCalls) : ~Zero(divideCalls[k][2])
        /\ PanicLine("Division by zero") \notin Range(stderr)
        /\ DivideRequestedByZero =>
              /\ Done
              /\ divideCalls = <<>>
              /\ stderr = <<DivisionByZero>>
              /\ exitStatus = 1

C2_Witness ==
    /\ CliRun /\ Done /\ exitStatus = 1
    /\ cli.command.operation.op = "Divide"
    /\ cli.command.operation.b = Fin(-1, 0, 1)

Symbols == {"+", "-", "*", "/"}

\* The runs the calculator is to finish with status 0: three positional
\* arguments, two numbers that parse, a supported operator, no division by
\* zero.
CalcSuccessCase ==
    /\ Len(argv) = 4
    /\ ParseF64(argv[2]).ok
    /\ ParseF64(argv[4]).ok
    /\ argv[3] \in Symbols
    /\ ~(argv[3] = "/" /\ Zero(ParseF64(argv[4]).value))

\* C3: for every argument list the calculator exits with status 0 exactly in
\* the success case and with status 1, and no other status, in every other
\* case.
C3_ExitStatus ==
    (CalcRun /\ Done) => exitStatus = (IF CalcSuccessCase THEN 0 ELSE 1)

PanicMessages ==
    {"Division by zero", "capacity overflow",
     "called Result::unwrap() on an Err value: " \o InvalidUnicode}

\* The kinds of failure the error stream reports.
FailureKinds ==
    {kd \in {"usage", "parse", "operator", "divzero", "panic"} :
        CASE kd = "usage" -> \E p \in Range(args) : Usage(p)[1] \in Range(stderr)
          [] kd = "parse" -> \E t \in ArgTokens : NotANumber(t) \in Range(stderr)
          [] kd = "operator" -> \E t \in ArgTokens : UnknownOperator(t)[1] \in Range(stderr)
          [] kd = "divzero" -> DivisionByZero \in Range(stderr)
          [] kd = "panic" -> \E m \in PanicMessages : PanicLine(m) \in Range(stderr)}

\* C4: the calculator checks in a fixed order and stops at the first failure:
\* nothing is parsed before the argument count is checked; a number that does
\* not parse ends the run at once with the one message naming that literal,
\* no later check or arithmetic done; a failing run reports exactly one kind
\* of failure and prints no result line.
C4_FirstFailureStops ==
    CalcRun =>
        /\ pc \in {"args", "argc"} => (num1 = Undef /\ num2 = Undef /\ result = Undef)
        /\ (Done /\ args # <<>> /\ Len(args) # 4) =>
              (num1 = Undef /\ num2 = Undef /\ FailureKinds = {"usage"})
        /\ (Done /\ Len(args) = 4 /\ ~ParseF64(args[2]).ok) =>
              /\ stderr = << "Error: '" \o args[2] \o "' is not a valid number" >>
              /\ exitStatus = 1
              /\ num2 = Undef /\ result = Undef
        /\ (Done /\ Len(args) = 4 /\ ParseF64(args[2]).ok /\ ~ParseF64(args[4]).ok) =>
              /\ stderr = << "Error: '" \o args[4] \o "' is not a valid number" >>
              /\ exitStatus = 1
              /\ result = Undef
        /\ (Done /\ exitStatus # 0) => (stdout = <<>> /\ Cardinality(FailureKinds) = 1)

C4_Witness ==
    /\ CalcRun /\ Done /\ exitStatus = 1
    /\ args = <<ProgramName, "abc", "%", "/">>
    /\ Len(stderr) = 1

ErrorLines ==
    {DivisionByZero}
    \cup Range(Usage(ProgramName))
    \cup {NotANumber(t) : t \in ArgTokens}
    \cup UNION {Range(UnknownOperator(t)) : t \in ArgTokens}
    \cup {PanicLine(m) : m \in PanicMessages}

\* C5: in every run of either front-end error messages go to the error
\* stream only and everything else to standard output only; a successful
\* calculator run writes exactly one line to standard output and nothing to
\* the error stream, a failing one at least one line to the error stream and
\* nothing to standard output.
C5_Streams ==
    (CalcRun \/ CliRun) =>
        /\ Range(stdout) \cap ErrorLines = {}
        /\ Range(stderr) \subseteq ErrorLines
        /\ (CalcRun /\ Done /\ exitStatus = 0) => (Len(stdout) = 1 /\ stderr = <<>>)
        /\ (CalcRun /\ Done /\ exitStatus # 0) => (Len(stderr) >= 1 /\ stdout = <<>>)

C5_Witness ==
    /\ CalcRun /\ Done /\ exitStatus = 1
    /\ args = <<ProgramName, "10", "%", "0">>
    /\ Len(stderr) = 2 /\ stdout = <<>>

GreetRun == CliRun /\ cli.command.cmd = "Greet"
\* Standard output after the verbose notice.
Output == SubSeq(stdout, IF cli.verbose THEN 2 ELSE 1, Len(stdout))
Numbered(name, k) == ToString(k) \o ". Hello, " \o name \o "!"
Unnumbered(name) == "Hello, " \o name \o "!"

\* C6 as stated: when count > 1 the greet subcommand prints exactly count
\* lines numbered 1..count in increasing order, and for every other count a
\* single unnumbered line.
C6_Original ==
    (GreetRun /\ pc \in {"return", "done"}) =>
        IF cli.command.count > 1
        THEN /\ Len(Output) = cli.command.count
             /\ \A k \in 1..cli.command.count : Output[k] = Numbered(cli.command.name, k)
        ELSE Output = <<Unnumbered(cli.command.name)>>

\* C6 as amended: when count > 1 it prints exactly count lines numbered
\* 1..count in increasing order (line k is printed k-th), when count = 1 a
\* single unnumbered line, and when count = 0 nothing.
C6_GreetLines ==
    GreetRun =>
        /\ pc = "greet" =>
              /\ Len(Output) = i - 1
              /\ \A k \in 1..Len(Output) :
                    Output[k] = IF cli.command.count > 1
                                THEN Numbered(cli.command.name, k)
                                ELSE Unnumbered(cli.command.name)
        /\ pc \in {"return", "done"} =>
              /\ exitStatus \in {NoExit, 0}
              /\ IF cli.command.count > 1
                 THEN /\ Len(Output) = cli.command.count
                      /\ \A k \in 1..cli.command.count :
                            Output[k] = Numbered(cli.command.name, k)
                 ELSE IF cli.command.count = 1
                 THEN Output = <<Unnumbered(cli.command.name)>>
                 ELSE Output = <<>>

C6_Witness ==
    /\ GreetRun /\ Done /\ cli.command.count = 0 /\ cli.verbose
    /\ stdout = <<Notice>>

GenerateRun == CliRun /\ cli.command.cmd = "Generate"

\* C7: for every item count N exactly N records are produced and printed in
\* order, and record k has identifier k, name "Item k" and value k * 1.5; the
\* identifier equals the position and agrees with the number in the name.
C7_Records ==
    (GenerateRun /\ pc \notin {"verbose", "match"}) =>
        /\ Len(data) = cli.command.count
        /\ \A k \in 1..Len(data) :
              /\ data[k].id = k
              /\ data[k].name = "Item " \o ToString(k)
              /\ data[k].name = "Item " \o ToString(data[k].id)
              /\ data[k].value = Fin(1, 3 * k, 2)
        /\ pc \in {"gen_json", "return", "done"} =>
              /\ Len(Output) >= 1 + cli.command.count
              /\ \A k \in 1..cli.command.count : Output[1 + k] = "  " \o DebugTestData(data[k])

\* C8: with the verbose flag set the notice is printed exactly once, before
\* any other output and before any exit, whatever the subcommand (or none);
\* without the flag it is never printed.
C8_VerboseFirst ==
    CliRun =>
        /\ pc = "verbose" => (stdout = <<>> /\ stderr = <<>> /\ exitStatus = NoExit)
        /\ (cli.verbose /\ pc # "verbose") =>
              /\ Len(stdout) >= 1
              /\ stdout[1] = Notice
              /\ Cardinality({k \in 1..Len(stdout) : stdout[k] = Notice}) = 1
        /\ ~cli.verbose => Notice \notin Range(stdout)

C8_Witness ==
    /\ CliRun /\ cli.verbose /\ Done /\ exitStatus = 1
    /\ cli.command.operation.op = "Divide"
    /\ stdout = <<Notice>> /\ stderr = <<DivisionByZero>>

MathDivideByZero ==
    /\ cli.command.cmd = "Math"
    /\ cli.command.operation.op = "Divide"
    /\ Zero(cli.command.operation.b)

\* C9: every run of the subcommand CLI on parsed arguments terminates, with
\* status 1 exactly when the subcommand is math divide with a zero second
\* operand and with status 0 otherwise.
C9_ExitStatus ==
    CliRun =>
        /\ Done \/ ENABLED Next
        /\ Done => exitStatus = (IF MathDivideByZero THEN 1 ELSE 0)

SymbolOf(op) ==
    CASE op = "Add" -> "+" [] op = "Subtract" -> "-" [] op = "Multiply" -> "*" [] op = "Divide" -> "/"
VariantOf(sym) ==
    CASE sym = "+" -> "Add" [] sym = "-" -> "Subtract" [] sym = "*" -> "Multiply" [] sym = "/" -> "Divide"
\* What the math module's function for the operation returns.
ModuleValue(op, a, b) ==
    CASE op = "Add" -> add(a, b)
      [] op = "Subtract" -> subtract(a, b)
      [] op = "Multiply" -> multiply(a, b)
      [] op = "Divide" -> divide(a, b).value

\* C10: for all operands and each of the four operations, the calculator
\* given the symbol and the subcommand CLI given the matching variant either
\* both print the same line "<a> <symbol> <b> = <result>", the result being
\* what the math module's function returns, and exit 0, or both report
\* division by zero and exit 1.  Each finished run of one front-end is
\* compared with what the other front-end's dispatch does on its operands.
C10_FrontEndsAgree ==
    /\ (CalcRun /\ Done /\ num2 # Undef /\ operator \in Symbols) =>
          LET m == MathArm([op |-> VariantOf(operator), a |-> num1, b |-> num2])
          IN \/ /\ m.kind = "ok"
                /\ exitStatus = 0
                /\ stdout = <<m.line>>
                /\ result = ModuleValue(VariantOf(operator), num1, num2)
             \/ /\ m.kind = "divzero"
                /\ exitStatus = 1
                /\ stdout = <<>>
                /\ stderr = <<DivisionByZero>>
    /\ (CliRun /\ Done /\ cli.command.cmd = "Math") =>
          LET o == cli.command.operation
              c == CalcMatch(SymbolOf(o.op), o.a, o.b)
          IN \/ /\ c.kind = "ok"
                /\ exitStatus = 0
                /\ Output[1] = CalcLine(o.a, SymbolOf(o.op), o.b, c.value)
                /\ result = ModuleValue(o.op, o.a, o.b)
                /\ result = c.value
             \/ /\ c.kind = "divzero"
                /\ exitStatus = 1
                /\ Output = <<>>
                /\ stderr = <<DivisionByZero>>

C10_Witness ==
    /\ CalcRun /\ Done /\ exitStatus = 0
    /\ args = <<ProgramName, "10", "/", "2.5">>
    /\ stdout = <<"10 / 2.5 = 4">>

====
